---- MODULE Spec2Model ----
(***************************************************************************)
(* The zustand store of src/components/store/store.jsx: a catalog of       *)
(* products, a shopping cart and a total, wrapped in the persist           *)
(* middleware that writes the snapshot as JSON to localStorage under the   *)
(* key "carrito-compras".                                                  *)
(*                                                                         *)
(* JavaScript values are modelled as follows.  A product is the record     *)
(* [id, name, price].  The values undefined and null are the records       *)
(* Undefined and Null, which have no id and no price: reading a property   *)
(* of either raises a TypeError in the code.  A call that raises leaves    *)
(* the store and the storage as they were and is recorded in thrown.       *)
(***************************************************************************)
EXTENDS Integers, Sequences, FiniteSets, TLC

\* Longest cart the model builds (addToCart is not offered beyond it).
MaxCart == 3

\* The callers pass the catalog ids 1..MaxId and one id that matches no
\* product; the catalog itself always holds its six products.
MaxId == 2

\* Number of calls the two browser tabs make between them.
MaxTabOps == 5

VARIABLES
    products,                \* state.products
    cart,                    \* state.cart
    totalPriceShoppingCart,  \* state.totalPriceShoppingCart
    localStorage,            \* the browser's key-value storage
    call,                    \* the last operation invoked and its argument
    thrown,                  \* "none", or the error the last operation raised
    before,                  \* the snapshot the last operation was invoked on
    tabs,                    \* the snapshot of the store of each browser tab
    writer,                  \* the tab that wrote localStorage last (0: none)
    tabOps                   \* number of calls the tabs have made

vars == <<products, cart, totalPriceShoppingCart, localStorage, call, thrown, before,
          tabs, writer, tabOps>>

\* The state of the one store the first specifications follow, and the state
\* of the stores of two tabs that share localStorage.
storeVars == <<products, cart, totalPriceShoppingCart, call, thrown, before>>
tabVars == <<tabs, writer, tabOps>>

\* Two tabs of one browser: each its own store, one localStorage.
Tabs == {1, 2}


-----------------------------------------------------------------------------
(* JavaScript values *)

Undefined == [type |-> "undefined"]
Null == [type |-> "null"]

\* Reading a property of undefined or of null raises a TypeError.
IsNullish(v) == v = Undefined \/ v = Null

\* The name under which persist stores the snapshot.
name == "carrito-compras"

\* The products with which the store is created.
initialProducts ==
    << [id |-> 1, name |-> "product 1", price |-> 50],
       [id |-> 2, name |-> "product 2", price |-> 30],
       [id |-> 3, name |-> "product 3", price |-> 40],
       [id |-> 4, name |-> "product 4", price |-> 78],
       [id |-> 5, name |-> "product 5", price |-> 90],
       [id |-> 6, name |-> "product 6", price |-> 60] >>

\* The state the creator function of the store returns (its data fields).
initialState ==
    [products |-> initialProducts, cart |-> <<>>, totalPriceShoppingCart |-> 0]

\* The object imported from constants/initialState, which clearCart installs:
\* the default snapshot.
productsInitialState ==
    [products |-> initialProducts, cart |-> <<>>, totalPriceShoppingCart |-> 0]

\* An id that matches no product of the catalog.
AbsentId == Len(initialProducts) + 1

\* The ids the callers pass.
Ids == (1..MaxId) \cup {AbsentId}

\* The current snapshot of the store.
state ==
    [products |-> products, cart |-> cart,
     totalPriceShoppingCart |-> totalPriceShoppingCart]

-----------------------------------------------------------------------------
(* Array helpers *)

\* find with a miss that yields null instead of undefined.
findOrNull(arr, id) ==
    IF \E i \in 1..Len(arr) : arr[i].id = id
    THEN arr[CHOOSE i \in 1..Len(arr) :
                 /\ arr[i].id = id
                 /\ \A j \in 1..(i - 1) : arr[j].id # id]
    ELSE Null

\* Array.prototype.find with the callback product.id === id: the first
\* matching element, or undefined.
find(arr, id) ==
    IF \E i \in 1..Len(arr) : arr[i].id = id
    THEN arr[CHOOSE i \in 1..Len(arr) :
                 /\ arr[i].id = id
                 /\ \A j \in 1..(i - 1) : arr[j].id # id]
    ELSE Undefined

\* Array.prototype.filter with the callback product.id !== id.
RECURSIVE filter(_, _)
filter(arr, id) ==
    IF arr = <<>> THEN <<>>
    ELSE IF Head(arr).id # id
         THEN <<Head(arr)>> \o filter(Tail(arr), id)
         ELSE filter(Tail(arr), id)

\* Array.prototype.reduce with the callback previousValue + product.price.
RECURSIVE reduce(_, _)
reduce(arr, previousValue) ==
    IF arr = <<>> THEN previousValue
    ELSE reduce(Tail(arr), previousValue + Head(arr).price)

\* The callbacks of filter and reduce read product.id and product.price of
\* every element: they raise a TypeError on an undefined or null element.
ReadsNullish(arr) == \E i \in 1..Len(arr) : IsNullish(arr[i])

-----------------------------------------------------------------------------
(* zustand: set and persist *)

\* set(updater): the object the updater returns is merged over the state
\* (Object.assign({}, state, nextState)).
set(s, nextState) ==
    [k \in (DOMAIN s) \cup (DOMAIN nextState) |->
        IF k \in DOMAIN nextState THEN nextState[k] ELSE s[k]]

\* JSON.stringify of one array element: undefined is written as null.
stringifyElement(v) == IF v = Undefined THEN Null ELSE v

\* JSON.stringify of the snapshot, as persist stores it (the value is kept
\* as the JSON tree: numbers and strings are written and read back as they
\* are, an undefined array element becomes null).
stringify(s) ==
    [state |->
        [products |-> [i \in 1..Len(s.products) |-> stringifyElement(s.products[i])],
         cart |-> [i \in 1..Len(s.cart) |-> stringifyElement(s.cart[i])],
         totalPriceShoppingCart |-> s.totalPriceShoppingCart],
     version |-> 0]

\* JSON.parse of the stored value, and the state it carries.
parse(blob) == blob.state

\* localStorage.getItem: the set of values stored under the key (empty when
\* the key is absent).
getItem(storage, key) == {e.value : e \in {x \in storage : x.key = key}}

\* localStorage.setItem: replaces the value stored under the key.
setItem(storage, key, value) ==
    {x \in storage : x.key # key} \cup {[key |-> key, value |-> value]}

\* persist that does not write after set.
persistedNever(storage, s) == storage

\* persist that merges the cart into the cart already stored.
persistedMerging(storage, s) ==
    IF getItem(storage, name) = {}
    THEN setItem(storage, name, stringify(s))
    ELSE setItem(storage, name,
                 [stringify(s) EXCEPT !.state.cart =
                     parse(CHOOSE b \in getItem(storage, name) : TRUE).cart \o @])

\* persist: after set, the whole snapshot is written under name.
persisted(storage, s) == setItem(storage, name, stringify(s))

\* Hydration that ignores the storage.
hydrateIgnoringStorage(storage) == initialState

\* persist's hydration at creation: the stored state, when there is one, is
\* merged over the state the creator returned.
hydrate(storage) ==
    IF getItem(storage, name) = {} THEN initialState
    ELSE set(initialState, parse(CHOOSE b \in getItem(storage, name) : TRUE))

-----------------------------------------------------------------------------
(* The updaters of the four operations *)

\* addToCart that puts the product in front of the cart.
addToCartUpdaterPrepend(s, id) ==
    [s EXCEPT !.cart = <<find(s.products, id)>> \o s.cart]

\* addToCart that moves the product out of the catalog into the cart.
addToCartUpdaterTakingFromCatalog(s, id) ==
    [s EXCEPT !.cart = Append(s.cart, find(s.products, id)),
              !.products = filter(s.products, id)]

\* addToCart that also adds the price of the product to the total.
addToCartUpdaterRecomputing(s, id) ==
    [s EXCEPT !.cart = Append(s.cart, find(s.products, id)),
              !.totalPriceShoppingCart =
                  IF IsNullish(find(s.products, id)) THEN @
                  ELSE @ + find(s.products, id).price]

addToCartUpdater(s, id) ==
    [s EXCEPT !.cart = Append(s.cart, find(s.products, id))]

\* deleteFromCart that leaves a hole (read as undefined) where an entry was.
deleteFromCartUpdaterHoles(s, id) ==
    [s EXCEPT !.cart = [i \in 1..Len(s.cart) |->
                           IF s.cart[i].id = id THEN Undefined ELSE s.cart[i]]]

deleteFromCartUpdater(s, id) ==
    [s EXCEPT !.cart = filter(s.cart, id)]

\* clearCart that only empties the cart.
clearCartUpdaterCartOnly(s) == [cart |-> <<>>]

clearCartUpdater(s) == productsInitialState

\* calculateTotalPriceOfCart whose sum starts from the previous total.
calculateTotalPriceOfCartUpdaterAccumulating(s) ==
    [s EXCEPT !.totalPriceShoppingCart = reduce(s.cart, s.totalPriceShoppingCart)]

calculateTotalPriceOfCartUpdater(s) ==
    [s EXCEPT !.totalPriceShoppingCart = reduce(s.cart, 0)]

-----------------------------------------------------------------------------
(* The outcome of one call on a snapshot: the snapshot it leaves and the     *)
(* error it raises, for calls applied one after the other.                   *)

addToCartCall(s, id) ==
    [state |-> set(s, addToCartUpdater(s, id)), thrown |-> "none"]

deleteFromCartCall(s, id) ==
    IF ReadsNullish(s.cart)
    THEN [state |-> s, thrown |-> "TypeError"]
    ELSE [state |-> set(s, deleteFromCartUpdater(s, id)), thrown |-> "none"]

-----------------------------------------------------------------------------
(* The state machine *)

\* A completed operation: the store holds s and persist has written it.
Commit(s, op, id) ==
    /\ products' = s.products
    /\ cart' = s.cart
    /\ totalPriceShoppingCart' = s.totalPriceShoppingCart
    /\ localStorage' = persisted(localStorage, s)
    /\ call' = [op |-> op, id |-> id]
    /\ thrown' = "none"
    /\ before' = state
    /\ UNCHANGED tabVars

\* An operation whose updater raised: set was not reached, nothing is
\* written, the error goes to the caller.
Raise(op, id) ==
    /\ call' = [op |-> op, id |-> id]
    /\ thrown' = "TypeError"
    /\ before' = state
    /\ UNCHANGED <<products, cart, totalPriceShoppingCart, localStorage>>
    /\ UNCHANGED tabVars

\* The store right after creation with an empty storage.  Depending on the
\* version of the middleware, hydration does or does not write the hydrated
\* snapshot back to the storage.
Init ==
    /\ products = initialState.products
    /\ cart = initialState.cart
    /\ totalPriceShoppingCart = initialState.totalPriceShoppingCart
    /\ localStorage \in {{}, persisted({}, initialState)}
    /\ call = [op |-> "create", id |-> 0]
    /\ thrown = "none"
    /\ before = initialState
    /\ tabs = [t \in Tabs |-> initialState]
    /\ writer = 0
    /\ tabOps = 0

addToCart(id) ==
    /\ Len(cart) < MaxCart
    /\ Commit(set(state, addToCartUpdater(state, id)), "addToCart", id)

deleteFromCart(id) ==
    IF ReadsNullish(cart)
    THEN Raise("deleteFromCart", id)
    ELSE Commit(set(state, deleteFromCartUpdater(state, id)), "deleteFromCart", id)

clearCart ==
    Commit(set(state, clearCartUpdater(state)), "clearCart", 0)

calculateTotalPriceOfCart ==
    IF ReadsNullish(cart)
    THEN Raise("calculateTotalPriceOfCart", 0)
    ELSE Commit(set(state, calculateTotalPriceOfCartUpdater(state)),
                "calculateTotalPriceOfCart", 0)

\* A new session: the in-memory store is gone, the store is created again
\* and hydrated from localStorage.
Reload ==
    /\ \E writeBack \in BOOLEAN :
          LET s == hydrate(localStorage) IN
          /\ products' = s.products
          /\ cart' = s.cart
          /\ totalPriceShoppingCart' = s.totalPriceShoppingCart
          /\ localStorage' = IF writeBack
                             THEN persisted(localStorage, s)
                             ELSE localStorage
    /\ call' = [op |-> "reload", id |-> 0]
    /\ thrown' = "none"
    /\ before' = state
    /\ UNCHANGED tabVars

Next ==
    \/ \E id \in Ids : addToCart(id)
    \/ \E id \in Ids : deleteFromCart(id)
    \/ clearCart
    \/ calculateTotalPriceOfCart
    \/ Reload

Spec == Init /\ [][Next]_vars

\* The store within one session: the four operations, no reload.
NextOps ==
    \/ \E id \in Ids : addToCart(id)
    \/ \E id \in Ids : deleteFromCart(id)
    \/ clearCart
    \/ calculateTotalPriceOfCart

SpecOps == Init /\ [][NextOps]_vars

-----------------------------------------------------------------------------
(* Two tabs: each holds its own store, created and hydrated from the same    *)
(* key, and every completed call of either writes its snapshot to the key.   *)

\* A completed call in tab t: its store holds s and persist has written it.
TabCommit(t, s) ==
    /\ tabs' = [tabs EXCEPT ![t] = s]
    /\ localStorage' = persisted(localStorage, s)
    /\ writer' = t
    /\ tabOps' = tabOps + 1
    /\ UNCHANGED storeVars

\* A call in tab t whose updater raised: nothing is set, nothing is written.
TabRaise(t) ==
    /\ tabOps' = tabOps + 1
    /\ UNCHANGED <<tabs, writer, localStorage>>
    /\ UNCHANGED storeVars

TabAddToCart(t, id) ==
    /\ tabOps < MaxTabOps
    /\ TabCommit(t, set(tabs[t], addToCartUpdater(tabs[t], id)))

TabDeleteFromCart(t, id) ==
    /\ tabOps < MaxTabOps
    /\ IF ReadsNullish(tabs[t].cart)
       THEN TabRaise(t)
       ELSE TabCommit(t, set(tabs[t], deleteFromCartUpdater(tabs[t], id)))

TabClearCart(t) ==
    /\ tabOps < MaxTabOps
    /\ TabCommit(t, set(tabs[t], clearCartUpdater(tabs[t])))

TabCalculateTotalPriceOfCart(t) ==
    /\ tabOps < MaxTabOps
    /\ IF ReadsNullish(tabs[t].cart)
       THEN TabRaise(t)
       ELSE TabCommit(t, set(tabs[t], calculateTotalPriceOfCartUpdater(tabs[t])))

\* Tab t is reloaded: its store is created again and hydrated from the key.
TabReload(t) ==
    /\ tabOps < MaxTabOps
    /\ \E writeBack \in BOOLEAN :
          /\ tabs' = [tabs EXCEPT ![t] = hydrate(localStorage)]
          /\ localStorage' = IF writeBack
                             THEN persisted(localStorage, hydrate(localStorage))
                             ELSE localStorage
          /\ writer' = IF writeBack THEN t ELSE writer
    /\ tabOps' = tabOps + 1
    /\ UNCHANGED storeVars

NextTabs ==
    \/ \E t \in Tabs, id \in Ids : TabAddToCart(t, id)
    \/ \E t \in Tabs, id \in Ids : TabDeleteFromCart(t, id)
    \/ \E t \in Tabs : TabClearCart(t)
    \/ \E t \in Tabs : TabCalculateTotalPriceOfCart(t)
    \/ \E t \in Tabs : TabReload(t)

SpecTabs == Init /\ [][NextTabs]_vars

-----------------------------------------------------------------------------
(* Properties *)

TypeOK ==
    /\ Len(cart) <= MaxCart
    /\ thrown \in {"none", "TypeError"}
    /\ totalPriceShoppingCart \in Nat
    /\ call.op \in {"create", "addToCart", "deleteFromCart", "clearCart",
                    "calculateTotalPriceOfCart", "reload"}

\* The ids of the products of the default catalog.
CatalogIds == {initialProducts[i].id : i \in 1..Len(initialProducts)}

\* The product of the default catalog with the given id.
CatalogProduct(id) ==
    CHOOSE p \in {initialProducts[i] : i \in 1..Len(initialProducts)} : p.id = id

\* The entries of a cart that are products (objects with an id and a price).
ProductPositions(c) == {i \in 1..Len(c) : ~IsNullish(c[i])}

\* Number of entries of a cart that carry the id.
CountId(c, id) == Cardinality({i \in ProductPositions(c) : c[i].id = id})

\* t is c with the entries carrying the id left out, the others in order:
\* there is an order-preserving one-to-one map from the positions of t onto
\* the positions of c whose entry does not carry the id.
IsCartWithout(t, c, id) ==
    LET kept == {i \in 1..Len(c) : IsNullish(c[i]) \/ c[i].id # id} IN
    /\ Len(t) = Cardinality(kept)
    /\ \A i \in kept :
          t[Cardinality({j \in kept : j <= i})] = c[i]

\* Sum of the prices of the entries of a cart of products, every entry
\* counted once.
RECURSIVE SumOfPrices(_)
SumOfPrices(c) ==
    IF c = <<>> THEN 0
    ELSE c[Len(c)].price + SumOfPrices(SubSeq(c, 1, Len(c) - 1))

\* C1: addToCart with an id of the catalog makes the cart one longer, its
\* last element the catalog product with that id, and its earlier elements
\* the previous cart in the same order.
C1_AddAppendsCatalogProduct ==
    [][(call'.op = "addToCart" /\ call'.id \in CatalogIds)
        => /\ thrown' = "none"
           /\ Len(cart') = Len(cart) + 1
           /\ cart'[Len(cart')] = CatalogProduct(call'.id)
           /\ SubSeq(cart', 1, Len(cart)) = cart]_vars

\* C1 witness: a product already in the cart has been added again and is
\* kept as a repeated entry at the end of a three-entry cart.
C1_Witness ==
    /\ call.op = "addToCart"
    /\ call.id \in CatalogIds
    /\ thrown = "none"
    /\ Len(before.cart) = 2
    /\ Len(cart) = 3
    /\ cart[1] = CatalogProduct(call.id)
    /\ cart[3] = CatalogProduct(call.id)
    /\ cart[2] # cart[3]

\* C2 (as claimed): in every reachable state and for every id,
\* deleteFromCart completes and leaves a cart with no entry of that id,
\* shorter by the number of entries of that id, the other entries in their
\* previous relative order.
C2_DeleteRemovesAllMatching ==
    [][(call'.op = "deleteFromCart")
        => /\ thrown' = "none"
           /\ CountId(cart', call'.id) = 0
           /\ Len(cart') = Len(cart) - CountId(cart, call'.id)
           /\ IsCartWithout(cart', cart, call'.id)]_vars

\* C3 (as claimed): in every reachable state calculateTotalPriceOfCart
\* completes and sets totalPriceShoppingCart to the sum of the prices of the
\* entries of the cart, 0 for the empty cart.
C3_TotalIsSumOfPrices ==
    [][(call'.op = "calculateTotalPriceOfCart")
        => /\ thrown' = "none"
           /\ cart' = cart
           /\ totalPriceShoppingCart' = SumOfPrices(cart)]_vars

\* C4: clearCart yields the default snapshot whatever the state before: the
\* cart empty, the total 0 and the products the six-item catalog.
C4_ClearCartRestoresDefault ==
    [][(call'.op = "clearCart")
        => /\ thrown' = "none"
           /\ cart' = <<>>
           /\ totalPriceShoppingCart' = 0
           /\ products' = initialProducts
           /\ {products'[i].id : i \in 1..Len(products')} = 1..6]_vars

\* C4 witness: clearCart has acted on a snapshot with a non-empty cart and a
\* total that was not 0.
C4_Witness ==
    /\ call.op = "clearCart"
    /\ Len(before.cart) = 2
    /\ before.totalPriceShoppingCart = 80
    /\ cart = <<>>
    /\ totalPriceShoppingCart = 0

\* C5 (as claimed): every invocation of the four operations completes
\* without raising an error.
C5_NoOperationRaises == thrown = "none"

\* The state stored under the name, as a set (empty when nothing is stored).
StoredStates == {parse(b) : b \in getItem(localStorage, name)}

\* C6 (as claimed): for every reachable snapshot, writing it to the
\* persistence slot and restoring it by a store reload yields the identical
\* snapshot: same products, same cart entries in the same order, same total.
C6_RoundTripIdentity == hydrate(persisted(localStorage, state)) = state

\* C7: after every completed addToCart, deleteFromCart, clearCart or
\* calculateTotalPriceOfCart the storage holds one value, under the key
\* "carrito-compras", and it is the serialization of the current snapshot.
C7_BlobIsCurrentSnapshot ==
    (/\ call.op \in {"addToCart", "deleteFromCart", "clearCart",
                     "calculateTotalPriceOfCart"}
     /\ thrown = "none")
    => localStorage = {[key |-> "carrito-compras", value |-> stringify(state)]}

\* C7 witness: a completed calculateTotalPriceOfCart on a two-entry cart has
\* changed the total, and the stored value carries the new total and the cart.
C7_Witness ==
    /\ call.op = "calculateTotalPriceOfCart"
    /\ thrown = "none"
    /\ Len(cart) = 2
    /\ before.totalPriceShoppingCart # totalPriceShoppingCart
    /\ \E st \in StoredStates :
          /\ st.totalPriceShoppingCart = totalPriceShoppingCart
          /\ st.cart = cart

\* C8: at session start the snapshot is the state of the stored value when
\* there is one under the key, and otherwise the default snapshot: the
\* six-item catalog, an empty cart and a total of 0.
C8_SessionStartRestoresBlob ==
    [][(call'.op = "reload")
        => IF StoredStates = {}
           THEN /\ products' = initialProducts
                /\ cart' = <<>>
                /\ totalPriceShoppingCart' = 0
           ELSE \A st \in StoredStates :
                /\ products' = st.products
                /\ cart' = st.cart
                /\ totalPriceShoppingCart' = st.totalPriceShoppingCart]_vars

\* C8 witness: a session has started from a stored value that holds a
\* two-entry cart and a total of 80.
C8_Witness ==
    /\ call.op = "reload"
    /\ Len(cart) = 2
    /\ totalPriceShoppingCart = 80
    /\ \E st \in StoredStates : st.cart = cart /\ st.totalPriceShoppingCart = 80

\* C9: addToCart with an id that matches no product does not fail: the cart
\* becomes one longer, its last element is the absent value (not a product),
\* and the earlier entries are unchanged.
C9_AddUnmatchedAppendsPlaceholder ==
    [][(/\ call'.op = "addToCart"
        /\ \A i \in 1..Len(products) : products[i].id # call'.id)
        => /\ thrown' = "none"
           /\ Len(cart') = Len(cart) + 1
           /\ cart'[Len(cart')] = Undefined
           /\ SubSeq(cart', 1, Len(cart)) = cart]_vars

\* C9 witness: an unmatched id has been added to a cart that held two
\* products, which are still its first two entries.
C9_Witness ==
    /\ call.op = "addToCart"
    /\ call.id \notin CatalogIds
    /\ thrown = "none"
    /\ Len(cart) = 3
    /\ ProductPositions(cart) = {1, 2}
    /\ cart[3] = Undefined
    /\ before.cart = <<cart[1], cart[2]>>

\* C10 (as claimed): in every reachable state deleteFromCart with an id that
\* no cart entry carries raises no error and leaves cart, products and
\* totalPriceShoppingCart as they were.
C10_DeleteAbsentIsNoOp ==
    [][(call'.op = "deleteFromCart" /\ CountId(cart, call'.id) = 0)
        => /\ thrown' = "none"
           /\ cart' = cart
           /\ products' = products
           /\ totalPriceShoppingCart' = totalPriceShoppingCart]_vars

\* C11: the catalog is never mutated: in every reachable state, reloads
\* included, products is the six-item sequence of the initial state, the ids
\* 1 to 6 with their names and prices in the same order.
C11_CatalogNeverMutated ==
    /\ products = initialProducts
    /\ [i \in 1..Len(products) |-> products[i].id] = <<1, 2, 3, 4, 5, 6>>

\* C11 witness: a session restored from the storage holds a full cart and a
\* total that was computed, after products were added.
C11_Witness ==
    /\ call.op = "reload"
    /\ Len(cart) = MaxCart
    /\ ~ReadsNullish(cart)
    /\ totalPriceShoppingCart > 0
    /\ products = initialProducts

\* C12: addToCart and deleteFromCart leave totalPriceShoppingCart and
\* products unchanged; calculateTotalPriceOfCart leaves cart and products
\* unchanged, and when it completes the total is the sum of the prices of the
\* cart.  (That a later addToCart or deleteFromCart reaches a state where
\* they differ is the witness.)
C12_TotalNotRecomputed ==
    [][/\ (call'.op \in {"addToCart", "deleteFromCart"})
            => /\ totalPriceShoppingCart' = totalPriceShoppingCart
               /\ products' = products
       /\ (call'.op = "calculateTotalPriceOfCart")
            => /\ cart' = cart
               /\ products' = products
       /\ (call'.op = "calculateTotalPriceOfCart" /\ thrown' = "none")
            => totalPriceShoppingCart' = SumOfPrices(cart')]_vars

\* C12 witness: the total agreed with a non-empty cart of products, then an
\* addToCart or deleteFromCart completed, and the total now differs from the
\* sum of the prices of the cart.
C12_Witness ==
    /\ call.op \in {"addToCart", "deleteFromCart"}
    /\ thrown = "none"
    /\ before.cart # <<>>
    /\ ~ReadsNullish(before.cart)
    /\ before.totalPriceShoppingCart = SumOfPrices(before.cart)
    /\ ~ReadsNullish(cart)
    /\ cart # before.cart
    /\ totalPriceShoppingCart = before.totalPriceShoppingCart
    /\ totalPriceShoppingCart # SumOfPrices(cart)

\* The value is one of the products of the catalog: same id, name and price.
IsCatalogProduct(v) == \E i \in 1..Len(initialProducts) : v = initialProducts[i]

\* Every entry of the cart is a product of the catalog.
HoldsOnlyCatalogProducts(c) == \A i \in 1..Len(c) : IsCatalogProduct(c[i])

\* C14: in every state reachable by the four operations every cart entry is
\* a product of the catalog or the absent value appended by addToCart with an
\* unmatched id; and a cart of catalog products stays one on every step that
\* is not an addToCart with an unmatched id, so that without such a call
\* every entry is a catalog product.
C14_CartEntriesFromCatalog ==
    /\ [](\A i \in 1..Len(cart) :
              IsCatalogProduct(cart[i]) \/ cart[i] = Undefined)
    /\ [][(/\ HoldsOnlyCatalogProducts(cart)
           /\ ~(call'.op = "addToCart" /\ call'.id \notin CatalogIds))
           => HoldsOnlyCatalogProducts(cart')]_vars

\* C14 witness: the cart holds the placeholder of an unmatched addToCart
\* between two catalog products, the second added after it.
C14_Witness ==
    /\ call.op = "addToCart"
    /\ call.id \in CatalogIds
    /\ Len(cart) = 3
    /\ IsCatalogProduct(cart[1])
    /\ cart[2] = Undefined
    /\ cart[3] = CatalogProduct(call.id)

\* C16: totalPriceShoppingCart is never negative, and every step either
\* leaves it as it is, or is a clearCart that sets it to 0, or is a completed
\* calculateTotalPriceOfCart that sets it to the sum of the prices of the
\* cart; it starts at 0, so it is always 0 or the sum of the cart of the most
\* recent calculateTotalPriceOfCart.
C16_TotalOnlyZeroOrLastSum ==
    /\ [](totalPriceShoppingCart >= 0)
    /\ [][\/ totalPriceShoppingCart' = totalPriceShoppingCart
          \/ /\ call'.op = "clearCart"
             /\ totalPriceShoppingCart' = 0
          \/ /\ call'.op = "calculateTotalPriceOfCart"
             /\ thrown' = "none"
             /\ totalPriceShoppingCart' = SumOfPrices(cart)]_vars

\* C16 witness: the total is still the 80 computed for an earlier cart of
\* the products priced 50 and 30, after a deleteFromCart left one product.
C16_Witness ==
    /\ call.op = "deleteFromCart"
    /\ thrown = "none"
    /\ before.totalPriceShoppingCart = SumOfPrices(before.cart)
    /\ totalPriceShoppingCart = 80
    /\ Len(cart) = 1
    /\ SumOfPrices(cart) # 80

\* C15 (as claimed): on a cart of catalog products and for all ids a and b,
\* deleteFromCart(a) twice leaves the snapshot of deleteFromCart(a) once,
\* deleteFromCart(a) and deleteFromCart(b) commute, and addToCart(a) followed
\* by deleteFromCart(a) completes with the cart of deleteFromCart(a) alone.
C15_DeleteLaws ==
    HoldsOnlyCatalogProducts(cart)
    => \A a \in Ids, b \in Ids :
          /\ deleteFromCartCall(deleteFromCartCall(state, a).state, a)
                = deleteFromCartCall(state, a)
          /\ deleteFromCartCall(deleteFromCartCall(state, a).state, b)
                = deleteFromCartCall(deleteFromCartCall(state, b).state, a)
          /\ deleteFromCartCall(addToCartCall(state, a).state, a).thrown = "none"
          /\ deleteFromCartCall(addToCartCall(state, a).state, a).state.cart
                = deleteFromCartCall(state, a).state.cart

\* C13: with two tabs interleaving their calls, the stored value is always
\* the serialization of the whole snapshot of the tab that wrote last,
\* nothing of the other tab merged in.
C13_LastWriterWins ==
    writer # 0
    => localStorage = {[key |-> "carrito-compras",
                        value |-> stringify(tabs[writer])]}

\* C13 witness: both tabs held the cart with product 1; tab 1 added product 2
\* and tab 2, writing last, added product 1 again.  The stored cart is the
\* one of tab 2: product 2 is absent from it and a reload would not restore
\* it.
C13_Witness ==
    /\ writer = 2
    /\ tabs[1].cart = <<CatalogProduct(1), CatalogProduct(2)>>
    /\ tabs[2].cart = <<CatalogProduct(1), CatalogProduct(1)>>
    /\ StoredStates = {tabs[2]}
    /\ hydrate(localStorage).cart = <<CatalogProduct(1), CatalogProduct(1)>>
====
